---- MODULE Spec2Model ----
(***************************************************************************)
(* A model of the ZingTouch gesture engine (bundle.js, v1.0.5): the        *)
(* region State and its Inputs, the five recognizers (Pan, Pinch, Rotate,  *)
(* Swipe, Tap), the interpreter, the arbiter and the dispatcher.           *)
(*                                                                         *)
(* Units.  Lengths returned by util.distanceBetweenTwoPoints are kept in   *)
(* hundredths of a pixel (the function rounds to two decimals), angles in  *)
(* hundredths of a degree, times in milliseconds.  A midpoint or an        *)
(* element centre is kept doubled (2x, 2y) so that it stays an integer.    *)
(* A JavaScript value that may be undefined is a sequence: <<>> is         *)
(* undefined and <<v>> is the value v.                                     *)
(***************************************************************************)
EXTENDS Integers, Sequences, FiniteSets, TLC

VARIABLES cfg, inputs, now, nEvents, last

vars == <<cfg, inputs, now, nEvents, last>>

-----------------------------------------------------------------------------
(* Bounds of the model. *)

(* The events of a run, and the changed touches of one TouchEvent. *)
MaxEvents == 3

MaxTouches == 2

-----------------------------------------------------------------------------
(* util (webpack module 5) *)

CIRCLE_DEGREES == 36000

HALF_CIRCLE_DEGREES == 18000

None == <<>>

Some(v) == <<v>>

Abs(a) == IF a < 0 THEN -a ELSE a

Min(a, b) == IF a < b THEN a ELSE b

RECURSIVE Gcd(_, _)
Gcd(a, b) == IF b = 0 THEN a ELSE Gcd(b, a % b)

RECURSIVE IsqrtIn(_, _, _)
IsqrtIn(n, lo, hi) ==
    IF lo >= hi THEN lo
    ELSE LET mid == (lo + hi + 1) \div 2
         IN IF mid * mid <= n THEN IsqrtIn(n, mid, hi) ELSE IsqrtIn(n, lo, mid - 1)

(* Math.sqrt, floored: the largest k with k*k <= n (n below 2^31). *)
Isqrt(n) == IsqrtIn(n, 0, Min(n, 46340))

(* The JavaScript remainder a % n: it takes the sign of the dividend. *)
JsRem(a, n) == IF a >= 0 THEN a % n ELSE -((-a) % n)

(* Math.atan(b/a) in hundredths of a degree, for coprime a >= b >= 0. *)
AtanTable ==
    <<1,0>> :> 0 @@ <<1,1>> :> 4500 @@ <<2,1>> :> 2657 @@ <<3,1>> :> 1843 @@
    <<3,2>> :> 3369 @@ <<4,1>> :> 1404 @@ <<4,3>> :> 3687 @@ <<5,1>> :> 1131 @@
    <<5,2>> :> 2180 @@ <<5,3>> :> 3096 @@ <<5,4>> :> 3866 @@ <<6,1>> :> 946 @@
    <<6,5>> :> 3981 @@ <<7,1>> :> 813 @@ <<7,2>> :> 1595 @@ <<7,3>> :> 2320 @@
    <<7,4>> :> 2974 @@ <<7,5>> :> 3554 @@ <<7,6>> :> 4060 @@ <<8,1>> :> 713 @@
    <<8,3>> :> 2056 @@ <<8,5>> :> 3201 @@ <<8,7>> :> 4119 @@ <<9,1>> :> 634 @@
    <<9,2>> :> 1253 @@ <<9,4>> :> 2396 @@ <<9,5>> :> 2905 @@ <<9,7>> :> 3787 @@
    <<9,8>> :> 4163 @@ <<10,1>> :> 571 @@ <<10,3>> :> 1670 @@ <<10,7>> :> 3499 @@
    <<10,9>> :> 4199 @@ <<11,1>> :> 519 @@ <<11,2>> :> 1030 @@ <<11,3>> :> 1526 @@
    <<11,4>> :> 1998 @@ <<11,5>> :> 2444 @@ <<11,6>> :> 2861 @@ <<11,7>> :> 3247 @@
    <<11,8>> :> 3603 @@ <<11,9>> :> 3929 @@ <<11,10>> :> 4227 @@ <<12,1>> :> 476 @@
    <<12,5>> :> 2262 @@ <<12,7>> :> 3026 @@ <<12,11>> :> 4251 @@ <<13,1>> :> 440 @@
    <<13,2>> :> 875 @@ <<13,3>> :> 1299 @@ <<13,4>> :> 1710 @@ <<13,5>> :> 2104 @@
    <<13,6>> :> 2478 @@ <<13,7>> :> 2830 @@ <<13,8>> :> 3161 @@ <<13,9>> :> 3470 @@
    <<13,10>> :> 3757 @@ <<13,11>> :> 4024 @@ <<13,12>> :> 4271 @@ <<14,1>> :> 409 @@
    <<14,3>> :> 1209 @@ <<14,5>> :> 1965 @@ <<14,9>> :> 3274 @@ <<14,11>> :> 3816 @@
    <<14,13>> :> 4288 @@ <<15,1>> :> 381 @@ <<15,2>> :> 759 @@ <<15,4>> :> 1493 @@
    <<15,7>> :> 2502 @@ <<15,8>> :> 2807 @@ <<15,11>> :> 3625 @@ <<15,13>> :> 4091 @@
    <<15,14>> :> 4303 @@ <<16,1>> :> 358 @@ <<16,3>> :> 1062 @@ <<16,5>> :> 1735 @@
    <<16,7>> :> 2363 @@ <<16,9>> :> 2936 @@ <<16,11>> :> 3451 @@ <<16,13>> :> 3909 @@
    <<16,15>> :> 4315

(* Math.atan2(dy, dx) in hundredths of a degree, in (-18000, 18000]. *)
Atan2(dy, dx) ==
    IF dx = 0 /\ dy = 0 THEN 0
    ELSE LET ax == Abs(dx)
             ay == Abs(dy)
             g == Gcd(ax, ay)
             base == IF ax >= ay THEN AtanTable[<<ax \div g, ay \div g>>]
                     ELSE 9000 - AtanTable[<<ay \div g, ax \div g>>]
         IN IF dx >= 0 /\ dy >= 0 THEN base
            ELSE IF dx < 0 /\ dy >= 0 THEN 18000 - base
            ELSE IF dx < 0 THEN base - 18000
            ELSE -base

(* util.distanceBetweenTwoPoints(x0, x1, y0, y1): Math.round(100 * sqrt) / 100, *)
(* returned in hundredths.  round(100 sqrt(d)) = (isqrt(40000 d) + 1) div 2.    *)
distanceBetweenTwoPoints(x0, x1, y0, y1) ==
    LET d == (x1 - x0) * (x1 - x0) + (y1 - y0) * (y1 - y0)
    IN (Isqrt(40000 * d) + 1) \div 2

(* util.getMidpoint(x0, x1, y0, y1), doubled. *)
getMidpoint(x0, x1, y0, y1) == [x |-> x0 + x1, y |-> y0 + y1]

(* util.getAngle(originX, originY, projectionX, projectionY). *)
getAngle(originX, originY, projectionX, projectionY) ==
    LET theta == Atan2(projectionY - originY, projectionX - originX)
    IN CIRCLE_DEGREES - (IF theta < 0 THEN CIRCLE_DEGREES + theta ELSE theta)

(* util.getAngularDistance(start, end). *)
getAngularDistance(start, end) ==
    LET angle == JsRem(end - start, CIRCLE_DEGREES)
        sign == IF angle < 0 THEN 1 ELSE -1
        mag == Abs(angle)
    IN IF mag > HALF_CIRCLE_DEGREES THEN sign * (CIRCLE_DEGREES - mag) ELSE sign * mag

(* util.isWithin(cX, cY, pX, pY, tolerance). *)
isWithin(cX, cY, pX, pY, tolerance) ==
    Abs(cY - pY) <= tolerance /\ Abs(cX - pX) <= tolerance

(* util.isInside(x, y, target): the open rectangle. *)
isInside(x, y, rect) ==
    /\ x > rect.left
    /\ x < rect.left + rect.width
    /\ y > rect.top
    /\ y < rect.top + rect.height

(* util.getRightMostInput(inputs): the index of the input it returns, 0 for null. *)
(* The running maximum starts at Number.MIN_VALUE, the smallest positive double, *)
(* and is never updated: every input with initial.x above it replaces the result.*)
RECURSIVE getRightMostInput(_)
getRightMostInput(inp) ==
    IF Len(inp) = 0 THEN 0
    ELSE IF inp[Len(inp)].initial.x > 0 THEN Len(inp)
    ELSE getRightMostInput(SubSeq(inp, 1, Len(inp) - 1))

(* util.getPathIndex(path, element): path.length when the element is not on it. *)
getPathIndex(path, element) ==
    IF \E i \in 1..Len(path) : path[i] = element
    THEN (CHOOSE i \in 1..Len(path) : path[i] = element) - 1
    ELSE Len(path)

(* util.getVelocity(sX, sY, sT, eX, eY, eT): distance (hundredths) over time (ms), *)
(* kept as the pair, since the quotient is not an integer.                          *)
getVelocity(sX, sY, sT, eX, eY, eT) ==
    [d |-> distanceBetweenTwoPoints(sX, eX, sY, eY), dt |-> eT - sT]

(* velocity < escapeVelocity on JavaScript numbers; escapeVelocity = num/den px/ms. *)
(* A negative time gives a velocity <= 0; a zero time gives Infinity or NaN.        *)
VelocityBelow(v, ev) ==
    IF v.dt > 0 THEN v.d * ev.den < ev.num * 100 * v.dt
    ELSE v.dt < 0

-----------------------------------------------------------------------------
(* The document: the region's element and two nested elements inside it. *)

Elements == {"region", "outer", "inner"}

getBoundingClientRect(el) ==
    CASE el = "region" -> [left |-> -2, top |-> -2, width |-> 40, height |-> 40]
      [] el = "outer" -> [left |-> 0, top |-> 0, width |-> 8, height |-> 8]
      [] el = "inner" -> [left |-> 2, top |-> 2, width |-> 4, height |-> 4]

(* util.getPropagationPath(event): the target and its ancestors, innermost first. *)
getPropagationPath(target) ==
    CASE target = "inner" -> <<"inner", "outer", "region">>
      [] target = "outer" -> <<"outer", "region">>
      [] target = "region" -> <<"region">>

-----------------------------------------------------------------------------
(* The gestures: the five the State constructor registers, with their default *)
(* options, and four registered afterwards through Region.register.           *)

Gestures ==
    [pan |-> [cls |-> "Pan", type |-> "pan", id |-> "0-0", numInputs |-> 1,
              threshold |-> 1],
     rotate |-> [cls |-> "Rotate", type |-> "rotate", id |-> "0-1", numInputs |-> 2],
     pinch |-> [cls |-> "Pinch", type |-> "pinch", id |-> "0-2", threshold |-> 1],
     swipe |-> [cls |-> "Swipe", type |-> "swipe", id |-> "0-3", numInputs |-> 1,
                maxRestTime |-> 100, escapeVelocity |-> [num |-> 1, den |-> 5],
                timeDistortion |-> 100, maxProgressStack |-> 10],
     tap |-> [cls |-> "Tap", type |-> "tap", id |-> "0-4", minDelay |-> 0,
              maxDelay |-> 300, numInputs |-> 1, tolerance |-> 10],
     pan2 |-> [cls |-> "Pan", type |-> "pan2", id |-> "0-5", numInputs |-> 2,
               threshold |-> 2],
     rotate1 |-> [cls |-> "Rotate", type |-> "rotate1", id |-> "0-6", numInputs |-> 1],
     swipe2 |-> [cls |-> "Swipe", type |-> "swipe2", id |-> "0-7", numInputs |-> 2,
                 maxRestTime |-> 100, escapeVelocity |-> [num |-> 1, den |-> 5],
                 timeDistortion |-> 100, maxProgressStack |-> 10],
     tap2 |-> [cls |-> "Tap", type |-> "tap2", id |-> "0-8", minDelay |-> 0,
               maxDelay |-> 300, numInputs |-> 2, tolerance |-> 10]]

(* Gesture.getId(). *)
getId(g) == g.id

(* The key of a gesture's scratch in Input.progress: Pan, Rotate and Swipe use *)
(* this.getId(), Pinch and Tap use this.type.                                  *)
ProgressKey(g) == IF g.cls \in {"Pinch", "Tap"} THEN g.type ELSE getId(g)

(* An empty progress object {} of a gesture, every property undefined. *)
EmptyScratch(g) ==
    CASE g.cls = "Pan" -> [active |-> FALSE, lastEmitted |-> None]
      [] g.cls = "Pinch" -> [lastEmittedDistance |-> None]
      [] g.cls = "Rotate" -> [initialAngle |-> None, previousAngle |-> None,
                              distance |-> 0, change |-> 0]
      [] g.cls = "Swipe" -> [moves |-> <<>>]
      [] g.cls = "Tap" -> [start |-> None]

(* The progress keys the region's bindings can touch. *)
ProgressKeys(c) ==
    {ProgressKey(Gestures[c.bindings[i].gesture]) : i \in 1..Len(c.bindings)}

(* The empty progress object {} stored under a key. *)
EmptyProgress(id) ==
    EmptyScratch(Gestures[CHOOSE n \in DOMAIN Gestures : ProgressKey(Gestures[n]) = id])

-----------------------------------------------------------------------------
(* ZingEvent (module 17) and Input (module 16) *)

ZingEvent(type, touch) == [type |-> type, x |-> touch.x, y |-> touch.y]

(* new Input(event, identifier): progress = {}, every scratch still empty. *)
Input(c, type, touch) ==
    LET currentEvent == ZingEvent(type, touch)
    IN [initial |-> currentEvent, current |-> currentEvent, previous |-> currentEvent,
        identifier |-> touch.identifier,
        progress |-> [id \in ProgressKeys(c) |-> EmptyProgress(id)]]

(* An update that forgets to shift current into previous. *)
updateWithoutShift(input, type, touch) ==
    [input EXCEPT !.current = ZingEvent(type, touch)]

(* Input.update(event, touchIdentifier). *)
update(input, type, touch) ==
    [input EXCEPT !.previous = input.current, !.current = ZingEvent(type, touch)]

(* Input.getCurrentEventType(). *)
getCurrentEventType(input) == input.current.type

(* Input.getGestureProgress(id). *)
getGestureProgress(input, id) == input.progress[id]

(* Input.resetProgress(id). *)
resetProgress(input, id) == [input EXCEPT !.progress[id] = EmptyProgress(id)]

(* Stores a scratch back: the recognizers mutate the progress object in place. *)
SetProgress(inp, i, id, scratch) == [inp EXCEPT ![i].progress[id] = scratch]

-----------------------------------------------------------------------------
(* The recognizers.  A hook returns the inputs as it leaves them, its result *)
(* (None for null or undefined) and whether it threw.                        *)

Ret(inp, data, threw) == [inputs |-> inp, data |-> data, threw |-> threw]

(* State.numActiveInputs(). *)
numActiveInputs(inp) == Cardinality({i \in 1..Len(inp) : inp[i].current.type # "end"})

(* Gesture.isValid(inputs, state, element). *)
isValid(inp, el) ==
    \A i \in 1..Len(inp) :
        isInside(inp[i].initial.x, inp[i].initial.y, getBoundingClientRect(el))

(* Pan (module 10) *)

PanStart(g, inp) ==
    Ret([i \in 1..Len(inp) |->
            [inp[i] EXCEPT !.progress[ProgressKey(g)] =
                [active |-> TRUE,
                 lastEmitted |-> Some([x |-> inp[i].current.x, y |-> inp[i].current.y])]]],
        None, FALSE)

(* packData(input, progress) of Pan.move. *)
PanPackData(input, progress) ==
    LET le == progress.lastEmitted[1]
    IN [distanceFromOrigin |->
            distanceBetweenTwoPoints(input.initial.x, input.current.x,
                                     input.initial.y, input.current.y),
        directionFromOrigin |->
            getAngle(input.initial.x, input.initial.y, input.current.x, input.current.y),
        currentDirection |-> getAngle(le.x, le.y, input.current.x, input.current.y),
        change |-> [x |-> input.current.x - le.x, y |-> input.current.y - le.y]]

(* The distance Pan.move compares with the threshold: the call passes        *)
(* (lastEmitted.x, lastEmitted.y, current.x, current.y) to a function whose  *)
(* parameters are (x0, x1, y0, y1).                                          *)
PanDistanceFromLastEmit(input, progress) ==
    LET le == progress.lastEmitted[1]
    IN distanceBetweenTwoPoints(le.x, le.y, input.current.x, input.current.y)

(* The forEach of Pan.move from input i on; data holds output.data so far. *)
RECURSIVE PanMoveFrom(_, _, _, _)
PanMoveFrom(g, inp, i, data) ==
    IF i > Len(inp) THEN Ret(inp, Some([data |-> data]), FALSE)
    ELSE LET progress == getGestureProgress(inp[i], ProgressKey(g))
         IN IF progress.lastEmitted = None THEN Ret(inp, None, TRUE)
            ELSE IF progress.active
                    /\ PanDistanceFromLastEmit(inp[i], progress) >= 100 * g.threshold
            THEN PanMoveFrom(g,
                     SetProgress(inp, i, ProgressKey(g),
                         [progress EXCEPT !.lastEmitted =
                             Some([x |-> inp[i].current.x, y |-> inp[i].current.y])]),
                     i + 1,
                     [data EXCEPT ![i] = Some(PanPackData(inp[i], progress))])
            ELSE PanMoveFrom(g, inp, i + 1, data)

PanMove(g, inp) ==
    IF g.numInputs # Len(inp) THEN Ret(inp, None, FALSE)
    ELSE PanMoveFrom(g, inp, 1, [i \in 1..Len(inp) |-> None])

PanEnd(g, inp) ==
    Ret([i \in 1..Len(inp) |-> [inp[i] EXCEPT !.progress[ProgressKey(g)].active = FALSE]],
        None, FALSE)

(* Pinch (module 11) *)

PinchStart(g, inp, el) ==
    IF ~isValid(inp, el) THEN Ret(inp, None, FALSE)
    ELSE IF Len(inp) = 2
    THEN Ret(SetProgress(inp, 1, ProgressKey(g),
                 [lastEmittedDistance |->
                     Some(distanceBetweenTwoPoints(inp[1].current.x, inp[2].current.x,
                                                   inp[1].current.y, inp[2].current.y))]),
             None, FALSE)
    ELSE Ret(inp, None, FALSE)

(* With lastEmittedDistance undefined the change is NaN and no comparison holds. *)
PinchMove(g, inp) ==
    IF numActiveInputs(inp) = 2
    THEN LET distance == distanceBetweenTwoPoints(inp[1].current.x, inp[2].current.x,
                                                  inp[1].current.y, inp[2].current.y)
             center == getMidpoint(inp[1].current.x, inp[2].current.x,
                                   inp[1].current.y, inp[2].current.y)
             progress == getGestureProgress(inp[1], ProgressKey(g))
         IN IF progress.lastEmittedDistance # None
               /\ Abs(distance - progress.lastEmittedDistance[1]) >= 100 * g.threshold
            THEN Ret(SetProgress(inp, 1, ProgressKey(g),
                         [lastEmittedDistance |-> Some(distance)]),
                     Some([distance |-> distance, center |-> center,
                           change |-> distance - progress.lastEmittedDistance[1]]),
                     FALSE)
            ELSE Ret(inp, None, FALSE)
    ELSE Ret(inp, None, FALSE)

(* Rotate (module 12) *)

(* The pivot (doubled) and the index of the measured input; 0 when *)
(* getRightMostInput returned null.                                *)
RotatePivot(inp, el, active) ==
    IF active = 1
    THEN LET rect == getBoundingClientRect(el)
         IN [x |-> 2 * rect.left + rect.width, y |-> 2 * rect.top + rect.height]
    ELSE getMidpoint(inp[1].current.x, inp[2].current.x,
                     inp[1].current.y, inp[2].current.y)

RotateInput(inp, active) == IF active = 1 THEN 1 ELSE getRightMostInput(inp)

RotateMove(g, inp, el) ==
    LET active == numActiveInputs(inp)
    IN IF g.numInputs # active THEN Ret(inp, None, FALSE)
       ELSE LET pivot == RotatePivot(inp, el, active)
                k == RotateInput(inp, active)
            IN IF k = 0 THEN Ret(inp, None, TRUE)
               ELSE LET currentAngle == getAngle(pivot.x, pivot.y,
                                                 2 * inp[k].current.x,
                                                 2 * inp[k].current.y)
                        progress == getGestureProgress(inp[k], ProgressKey(g))
                        next ==
                            IF progress.initialAngle = None
                            THEN [initialAngle |-> Some(currentAngle),
                                  previousAngle |-> Some(currentAngle),
                                  distance |-> 0, change |-> 0]
                            ELSE LET change == getAngularDistance(
                                                   progress.previousAngle[1],
                                                   currentAngle)
                                 IN [initialAngle |-> progress.initialAngle,
                                     previousAngle |-> Some(currentAngle),
                                     distance |-> progress.distance + change,
                                     change |-> change]
                    IN Ret(SetProgress(inp, k, ProgressKey(g), next),
                           Some([angle |-> currentAngle,
                                 distanceFromOrigin |-> next.distance,
                                 distanceFromLast |-> next.change]),
                           FALSE)

(* Swipe (module 13) *)

(* Swipe.move: the test before moves.shift() reads progress.length, which no *)
(* progress object has, so it never holds.                                   *)
SwipeMove(g, inp, t) ==
    IF g.numInputs = Len(inp)
    THEN Ret([i \in 1..Len(inp) |->
                 [inp[i] EXCEPT !.progress[ProgressKey(g)].moves =
                     Append(@, [time |-> t, x |-> inp[i].current.x,
                                y |-> inp[i].current.y])]],
             None, FALSE)
    ELSE Ret(inp, None, FALSE)

(* The index of the last move whose time differs from currentMove's, 0 if none. *)
SwipeLastMove(moves, currentMove) ==
    LET S == {j \in 1..Len(moves) : moves[j].time # currentMove.time}
    IN IF S = {} THEN 0 ELSE CHOOSE j \in S : \A k \in S : k <= j

(* The first loop of Swipe.end from input i on.  data is output.data so far,  *)
(* velocity the function-scoped variable the second loop reads.               *)
RECURSIVE SwipeEndFrom(_, _, _, _, _, _)
SwipeEndFrom(g, inp, t, i, data, velocity) ==
    IF i > Len(inp)
    THEN IF \E n \in 1..Len(data) : data[n] # None
         THEN IF VelocityBelow(velocity[1], g.escapeVelocity) THEN Ret(inp, None, FALSE)
              ELSE Ret(inp, Some([data |-> data]), FALSE)
         ELSE Ret(inp, None, FALSE)
    ELSE IF inp[i].current.type # "end" THEN Ret(inp, None, FALSE)
    ELSE LET moves == getGestureProgress(inp[i], ProgressKey(g)).moves
         IN IF Len(moves) > 2
            THEN LET currentMove == moves[Len(moves)]
                     popped == SubSeq(moves, 1, Len(moves) - 1)
                     j == SwipeLastMove(popped, currentMove)
                     lastMove == IF j # 0 THEN popped[j]
                                 ELSE [popped[Len(popped)] EXCEPT
                                          !.time = @ + g.timeDistortion]
                     left == IF j # 0 THEN popped
                             ELSE SubSeq(popped, 1, Len(popped) - 1)
                     v == getVelocity(lastMove.x, lastMove.y, lastMove.time,
                                      currentMove.x, currentMove.y, currentMove.time)
                 IN IF t - currentMove.time > g.maxRestTime
                    THEN Ret(SetProgress(inp, i, ProgressKey(g), [moves |-> popped]),
                             None, FALSE)
                    ELSE SwipeEndFrom(g,
                             SetProgress(inp, i, ProgressKey(g), [moves |-> left]),
                             t, i + 1,
                             [data EXCEPT ![i] =
                                 Some([velocity |-> v,
                                       distance |-> distanceBetweenTwoPoints(
                                           lastMove.x, currentMove.x,
                                           lastMove.y, currentMove.y),
                                       duration |-> currentMove.time - lastMove.time,
                                       currentDirection |-> getAngle(
                                           lastMove.x, lastMove.y,
                                           currentMove.x, currentMove.y)])],
                             Some(v))
            ELSE SwipeEndFrom(g, inp, t, i + 1, data, velocity)

SwipeEnd(g, inp, t) ==
    IF g.numInputs = Len(inp)
    THEN SwipeEndFrom(g, inp, t, 1, [i \in 1..Len(inp) |-> None], None)
    ELSE Ret(inp, None, FALSE)

(* Tap (module 14) *)

TapStart(g, inp, t) ==
    IF Len(inp) = g.numInputs
    THEN Ret([i \in 1..Len(inp) |->
                 [inp[i] EXCEPT !.progress[ProgressKey(g)].start = Some(t)]],
             None, FALSE)
    ELSE Ret(inp, None, FALSE)

(* A Tap whose disqualification leaves the scratch as it is. *)
TapResetNothing(g, inp) == inp

TapReset(g, inp) == [i \in 1..Len(inp) |-> resetProgress(inp[i], ProgressKey(g))]

TapMove(g, inp) ==
    IF \E i \in 1..Len(inp) :
           /\ getCurrentEventType(inp[i]) = "move"
           /\ ~isWithin(inp[i].current.x, inp[i].current.y,
                        inp[i].previous.x, inp[i].previous.y, g.tolerance)
    THEN Ret(TapReset(g, inp), None, FALSE)
    ELSE Ret(inp, None, FALSE)

(* progress.start is a clock reading, never 0, so it is falsy only when undefined. *)
TapEnd(g, inp, t) ==
    IF Len(inp) # g.numInputs THEN Ret(inp, None, FALSE)
    ELSE IF \E i \in 1..Len(inp) :
                \/ getCurrentEventType(inp[i]) # "end"
                \/ getGestureProgress(inp[i], ProgressKey(g)).start = None
    THEN Ret(inp, None, FALSE)
    ELSE LET starts == {getGestureProgress(inp[i], ProgressKey(g)).start[1] :
                           i \in 1..Len(inp)}
             startTime == CHOOSE s \in starts : \A s2 \in starts : s <= s2
             interval == t - startTime
         IN IF g.minDelay <= interval /\ g.maxDelay >= interval
            THEN Ret(inp, Some([interval |-> interval]), FALSE)
            ELSE Ret(TapReset(g, inp), None, FALSE)

(* gesture[type](inputs, state, element): the hook of a gesture for an event      *)
(* type; a hook the class does not define is Gesture's (module 4), returning null.*)
Hook(g, type, inp, el, t) ==
    CASE g.cls = "Pan" /\ type = "start" -> PanStart(g, inp)
      [] g.cls = "Pan" /\ type = "move" -> PanMove(g, inp)
      [] g.cls = "Pan" /\ type = "end" -> PanEnd(g, inp)
      [] g.cls = "Pinch" /\ type = "start" -> PinchStart(g, inp, el)
      [] g.cls = "Pinch" /\ type = "move" -> PinchMove(g, inp)
      [] g.cls = "Rotate" /\ type = "move" -> RotateMove(g, inp, el)
      [] g.cls = "Swipe" /\ type = "move" -> SwipeMove(g, inp, t)
      [] g.cls = "Swipe" /\ type = "end" -> SwipeEnd(g, inp, t)
      [] g.cls = "Tap" /\ type = "start" -> TapStart(g, inp, t)
      [] g.cls = "Tap" /\ type = "move" -> TapMove(g, inp)
      [] g.cls = "Tap" /\ type = "end" -> TapEnd(g, inp, t)
      [] OTHER -> Ret(inp, None, FALSE)

-----------------------------------------------------------------------------
(* State (module 9) *)

(* The index in inputs of the input with the identifier, 0 when find() fails. *)
findInput(inp, identifier) ==
    LET S == {i \in 1..Len(inp) : inp[i].identifier = identifier}
    IN IF S = {} THEN 0 ELSE CHOOSE i \in S : \A j \in S : i <= j

(* State.resetInputs(). *)
resetInputs == <<>>

(* An update that drops a move or an end of an identifier it does not track, *)
(* and keeps the inputs it has.                                              *)
updateInputKeepOthers(c, inp, type, touch) ==
    IF type = "start"
    THEN IF findInput(inp, touch.identifier) # 0 THEN resetInputs
         ELSE Append(inp, Input(c, type, touch))
    ELSE IF findInput(inp, touch.identifier) = 0 THEN inp
    ELSE [inp EXCEPT ![findInput(inp, touch.identifier)] = update(@, type, touch)]

(* An update that does not look at where the input was last seen. *)
updateInputAnywhere(c, inp, type, touch) ==
    IF findInput(inp, touch.identifier) = 0
    THEN IF type = "start" THEN Append(inp, Input(c, type, touch)) ELSE resetInputs
    ELSE IF type = "start" THEN resetInputs
    ELSE [inp EXCEPT ![findInput(inp, touch.identifier)] = update(@, type, touch)]

(* An update that tracks a new input on every start, whatever is tracked. *)
updateInputAlwaysPush(c, inp, type, touch) ==
    IF type = "start" THEN Append(inp, Input(c, type, touch))
    ELSE IF findInput(inp, touch.identifier) = 0 THEN resetInputs
    ELSE [inp EXCEPT ![findInput(inp, touch.identifier)] = update(@, type, touch)]

(* The inner update(event, state, identifier, regionElement) of updateInputs. *)
updateInput(c, inp, type, touch) ==
    LET k == findInput(inp, touch.identifier)
    IN IF type = "start" /\ k # 0 THEN resetInputs
       ELSE IF type # "start" /\ k # 0
               /\ ~isInside(inp[k].current.x, inp[k].current.y,
                            getBoundingClientRect("region"))
       THEN resetInputs
       ELSE IF type # "start" /\ k = 0 THEN resetInputs
       ELSE IF type = "start" THEN Append(inp, Input(c, type, touch))
       ELSE [inp EXCEPT ![k] = update(inp[k], type, touch)]

(* State.updateInputs(event, regionElement): once per changed touch of a *)
(* TouchEvent, once for a PointerEvent or a MouseEvent.                  *)
RECURSIVE updateInputs(_, _, _, _)
updateInputs(c, inp, type, touches) ==
    IF touches = <<>> THEN inp
    ELSE updateInputs(c, updateInput(c, inp, type, Head(touches)), type, Tail(touches))

(* State.retrieveBindingsByInitialPos(): the indices of the bindings it returns. *)
retrieveBindingsByInitialPos(c, inp) ==
    SelectSeq([b \in 1..Len(c.bindings) |-> b],
              LAMBDA b : \E i \in 1..Len(inp) :
                  isInside(inp[i].initial.x, inp[i].initial.y,
                           getBoundingClientRect(c.bindings[b].element)))

-----------------------------------------------------------------------------
(* State and Point2D of src/core: State.inputs is an array indexed by the    *)
(* identifier, here a function from the identifiers that hold an Input.      *)

(* Point2D.isInside(element). *)
Point2D_isInside(x, y, rect) ==
    /\ x >= rect.left
    /\ x <= rect.left + rect.width
    /\ y >= rect.top
    /\ y <= rect.top + rect.height

(* State.updateInput(event, identifier). *)
State_updateInput(c, arr, type, touch) ==
    IF type = "start"
    THEN [id \in DOMAIN arr \cup {touch.identifier} |->
             IF id = touch.identifier THEN Input(c, type, touch) ELSE arr[id]]
    ELSE IF touch.identifier \in DOMAIN arr
    THEN [arr EXCEPT ![touch.identifier] = update(@, type, touch)]
    ELSE arr

(* State.updateAllInputs(event). *)
RECURSIVE State_updateAllInputs(_, _, _, _)
State_updateAllInputs(c, arr, type, touches) ==
    IF touches = <<>> THEN arr
    ELSE State_updateAllInputs(c, State_updateInput(c, arr, type, Head(touches)),
                               type, Tail(touches))

(* State.someInputWasInitiallyInside(element), Input.wasInitiallyInside. *)
State_someInputWasInitiallyInside(arr, el) ==
    \E id \in DOMAIN arr :
        Point2D_isInside(arr[id].initial.x, arr[id].initial.y, getBoundingClientRect(el))

-----------------------------------------------------------------------------
(* interpreter (module 8): the reduce over the bindings.  A hook that throws *)
(* ends it, with the progress the earlier hooks wrote left in the inputs.    *)

RECURSIVE interpreter(_, _, _, _, _, _)

(* One step of the reduce: r is what the binding's hook returned. *)
interpreterStep(c, bs, type, t, candidates, r) ==
    IF r.threw
    THEN [inputs |-> r.inputs, candidates |-> candidates, threw |-> TRUE]
    ELSE interpreter(c, Tail(bs), type, r.inputs, t,
             IF r.data = None THEN candidates
             ELSE Append(candidates,
                      [binding |-> Head(bs),
                       id |-> getId(Gestures[c.bindings[Head(bs)].gesture]),
                       data |-> r.data[1]]))

interpreter(c, bs, type, inp, t, candidates) ==
    IF bs = <<>> THEN [inputs |-> inp, candidates |-> candidates, threw |-> FALSE]
    ELSE interpreterStep(c, bs, type, t, candidates,
             Hook(Gestures[c.bindings[Head(bs)].gesture], type, inp,
                  c.bindings[Head(bs)].element, t))

(* arbiter (module 6): toBeDispatched, the winner per gesture id, in the order *)
(* the ids were first seen (Object.keys).                                      *)
RECURSIVE Winner(_, _, _, _)
Winner(c, path, candidates, best) ==
    IF candidates = <<>> THEN best
    ELSE LET e == Head(candidates)
         IN Winner(c, path, Tail(candidates),
                   IF e.id # best.id THEN best
                   ELSE IF getPathIndex(path, c.bindings[e.binding].element)
                           < getPathIndex(path, c.bindings[best.binding].element)
                   THEN e
                   ELSE best)

toBeDispatched(c, path, candidates) ==
    LET first == SelectSeq([k \in 1..Len(candidates) |-> k],
                     LAMBDA k : \A j \in 1..(k - 1) : candidates[j].id # candidates[k].id)
    IN [n \in 1..Len(first) |->
           Winner(c, path, SubSeq(candidates, first[n] + 1, Len(candidates)),
                  candidates[first[n]])]

(* dispatcher (module 7), called for each winner in turn: emitEvent dispatches   *)
(* the event, then for a bindOnce binding calls ZingTouch.unbind, which the      *)
(* ZingTouch object (module 1) does not have: a TypeError ends the loop.         *)
(* Returns the winners whose event was dispatched and whether the loop threw.    *)
RECURSIVE dispatcher(_, _, _)
dispatcher(c, winners, done) ==
    IF winners = <<>> THEN [forwarded |-> done, threw |-> FALSE]
    ELSE IF c.bindings[Head(winners).binding].bindOnce
    THEN [forwarded |-> Append(done, Head(winners)), threw |-> TRUE]
    ELSE dispatcher(c, Tail(winners), Append(done, Head(winners)))

(* The end of arbiter: resetInputs when every input is in the end phase. *)
endPurge(inp) ==
    IF Cardinality({i \in 1..Len(inp) : getCurrentEventType(inp[i]) = "end"}) = Len(inp)
    THEN resetInputs
    ELSE inp

(* arbiter(event, region), in the order of its statements: the inputs it *)
(* leaves and a trace of what it did.                                     *)
(* ev = [type, touches, buttons, target]; buttons is None on a TouchEvent. *)

(* After the dispatch loop: the end-phase purge, unless the loop threw. *)
arbiterPurge(step, run, sent) ==
    [inputs |-> IF sent.threw THEN run.inputs ELSE endPurge(run.inputs),
     step |-> step,
     candidates |-> run.candidates,
     forwarded |-> sent.forwarded,
     threw |-> sent.threw]

(* The winners of the candidates, each handed to the dispatcher. *)
arbiterDispatch(c, ev, step, run) ==
    arbiterPurge(step, run,
        IF run.threw THEN [forwarded |-> <<>>, threw |-> TRUE]
        ELSE dispatcher(c,
                 toBeDispatched(c, getPropagationPath(ev.target), run.candidates),
                 <<>>))

(* The interpreter over the bindings retrieveBindingsByInitialPos returned. *)
arbiterInterpret(c, ev, t, updated, bs) ==
    IF Len(bs) > 0
    THEN arbiterDispatch(c, ev, "interpreted",
             interpreter(c, bs, ev.type, updated, t, <<>>))
    ELSE arbiterDispatch(c, ev, "unbound",
             [inputs |-> updated, candidates |-> <<>>, threw |-> FALSE])

arbiterUpdated(c, ev, t, updated) ==
    arbiterInterpret(c, ev, t, updated, retrieveBindingsByInitialPos(c, updated))

(* An arbiter that does not look at the buttons of the event. *)
arbiterAnyButtons(c, inp, ev, t) ==
    IF ~(Len(inp) # 0 \/ ev.type = "start")
    THEN [inputs |-> inp, step |-> "ignored", candidates |-> <<>>,
          forwarded |-> <<>>, threw |-> FALSE]
    ELSE arbiterUpdated(c, ev, t, updateInputs(c, inp, ev.type, ev.touches))

arbiter(c, inp, ev, t) ==
    IF ~(Len(inp) # 0 \/ ev.type = "start")
    THEN [inputs |-> inp, step |-> "ignored", candidates |-> <<>>,
          forwarded |-> <<>>, threw |-> FALSE]
    ELSE IF ev.buttons # None /\ ev.type # "end" /\ ev.buttons[1] = 0
    THEN [inputs |-> resetInputs, step |-> "buttons", candidates |-> <<>>,
          forwarded |-> <<>>, threw |-> FALSE]
    ELSE arbiterUpdated(c, ev, t, updateInputs(c, inp, ev.type, ev.touches))

-----------------------------------------------------------------------------
(* Events *)

Touch(id, p) == [identifier |-> id, x |-> p.x, y |-> p.y]

Pt(x, y) == [x |-> x, y |-> y]

(* The buttons a mouse or pointer event can carry: some button is down on a *)
(* start; any on a move; mouseup is not looked at.                          *)
Buttons(type) == IF type = "move" THEN {0, 1} ELSE IF type = "start" THEN {1} ELSE {0}

(* The changedTouches lists of a TouchEvent: up to n distinct contacts, each at *)
(* one of its positions, in the order of their identifiers.                     *)
RECURSIVE TouchLists(_, _, _)
TouchLists(ids, points, n) ==
    IF n = 0 THEN {<<>>}
    ELSE LET shorter == TouchLists(ids, points, n - 1)
         IN shorter \cup
            {Append(l, Touch(id, p)) :
                l \in {s \in shorter : Len(s) = n - 1},
                id \in ids, p \in points}

ChangedTouches(ids, points) ==
    {l \in TouchLists(ids, points, MaxTouches) :
        /\ Len(l) >= 1
        /\ \A i, j \in 1..Len(l) : i < j => l[i].identifier < l[j].identifier}

EventTypes == {"start", "move", "end"}

(* mousedown/mousemove/mouseup (identifier 0) and pointer events. *)
PointerEvents(types, ids, points, targets) ==
    {[type |-> type, touches |-> <<Touch(id, p)>>, buttons |-> Some(b),
      target |-> target] :
        type \in types, id \in ids, p \in points, target \in targets, b \in {0, 1}}

(* touchstart/touchmove/touchend. *)
TouchEvents(types, lists, targets) ==
    {[type |-> type, touches |-> touches, buttons |-> None, target |-> target] :
        type \in types, touches \in lists, target \in targets}

-----------------------------------------------------------------------------
(* A configuration: the region's bindings (State.bindings, in registration    *)
(* order) and the events its environment sends: the pointer and touch events, *)
(* the clock steps between two events, and how many events a run has.         *)

Binding(element, gesture) ==
    [element |-> element, gesture |-> gesture, bindOnce |-> FALSE]

BindOnce(element, gesture) ==
    [element |-> element, gesture |-> gesture, bindOnce |-> TRUE]

Config(bindings, pointerEvents, touchEvents, ticks, maxEvents) ==
    [bindings |-> bindings, ticks |-> ticks, maxEvents |-> maxEvents,
     pointerEvents |-> {e \in pointerEvents : e.buttons[1] \in Buttons(e.type)},
     touchEvents |-> touchEvents]

Nested(gesture, outerFirst) ==
    IF outerFirst THEN <<Binding("outer", gesture), Binding("inner", gesture)>>
    ELSE <<Binding("inner", gesture), Binding("outer", gesture)>>

(* Two contacts inside the inner element; the second one moves away and back. *)
TwoContacts(bindings) ==
    Config(bindings,
           PointerEvents(EventTypes, {0}, {Pt(3, 3)}, {"inner"}),
           TouchEvents(EventTypes,
                       ChangedTouches({0}, {Pt(3, 3)})
                           \cup ChangedTouches({1}, {Pt(4, 3), Pt(5, 3)})
                           \cup {<<Touch(0, Pt(3, 3)), Touch(1, Pt(4, 3))>>},
                       {"inner"}),
           {10}, MaxEvents)

(* One contact that moves fast along a line inside the inner element. *)
OneContact(bindings) ==
    Config(bindings,
           PointerEvents(EventTypes, {0}, {Pt(3, 3), Pt(5, 3)}, {"inner"}),
           TouchEvents({"start"}, ChangedTouches({0}, {Pt(3, 3)}), {"inner"}),
           {10}, MaxEvents + 2)

(* One contact inside the inner element; the event's target is any element. *)
AnyTarget(bindings) ==
    Config(bindings,
           PointerEvents(EventTypes, {0}, {Pt(3, 3), Pt(4, 3)}, Elements),
           TouchEvents({"start"}, ChangedTouches({0}, {Pt(3, 3)}), Elements),
           {10}, MaxEvents)

(* One contact that taps, or goes 12 px away, quickly or after a long while. *)
OneTap(bindings) ==
    Config(bindings,
           PointerEvents(EventTypes, {0}, {Pt(3, 3), Pt(15, 3)}, {"inner"}),
           TouchEvents({"start"}, ChangedTouches({0}, {Pt(3, 3)}), {"inner"}),
           {100, 400}, MaxEvents + 1)

(* Two contacts that tap together or one after the other. *)
TwoTaps(bindings) ==
    Config(bindings, {},
           TouchEvents(EventTypes,
                       ChangedTouches({0, 1}, {Pt(3, 3)})
                           \cup ChangedTouches({1}, {Pt(15, 3)}),
                       {"inner"}),
           {100, 400}, MaxEvents)

Configs ==
    [pan |-> OneContact(<<Binding("inner", "pan")>>),
     tap |-> OneTap(<<Binding("inner", "tap")>>),
     tap2 |-> TwoTaps(<<Binding("inner", "tap2")>>),
     (* Two contacts go down together, a third one later, the first one lifts. *)
     pinch |->
         Config(<<Binding("inner", "pinch")>>,
                PointerEvents(EventTypes, {0}, {Pt(3, 3)}, {"inner"}),
                TouchEvents(EventTypes,
                            ChangedTouches({0}, {Pt(3, 3)})
                                \cup ChangedTouches({1}, {Pt(4, 3), Pt(5, 3)})
                                \cup ChangedTouches({2}, {Pt(5, 3)})
                                \cup {<<Touch(0, Pt(3, 3)), Touch(1, Pt(4, 3))>>},
                            {"inner"}),
                {10}, MaxEvents + 1),
     (* One contact goes round the centre (4,4) of the inner element. *)
     rotate1 |->
         Config(<<Binding("inner", "rotate1")>>,
                PointerEvents(EventTypes, {0}, {Pt(5, 5), Pt(5, 4), Pt(5, 3)}, {"inner"}),
                TouchEvents({"start"}, ChangedTouches({0}, {Pt(5, 5)}), {"inner"}),
                {10}, MaxEvents + 1),
     (* Two contacts go down together and the second one turns about the first; *)
     (* a third one goes down and the first one lifts.                          *)
     rotate3 |->
         Config(<<Binding("inner", "rotate")>>, {},
                TouchEvents({"start"},
                            {<<Touch(0, Pt(3, 3)), Touch(1, Pt(4, 3))>>,
                             <<Touch(2, Pt(5, 3))>>}, {"inner"})
                    \cup TouchEvents({"move"},
                                     ChangedTouches({1}, {Pt(4, 3), Pt(3, 4)}), {"inner"})
                    \cup TouchEvents({"end"}, ChangedTouches({0}, {Pt(3, 3)}), {"inner"}),
                {10}, MaxEvents + 3),
     (* One contact that moves 32 px and back, at once or after a rest. *)
     swipe |->
         Config(<<Binding("inner", "swipe")>>,
                PointerEvents({"start"}, {0}, {Pt(3, 3)}, {"inner"})
                    \cup PointerEvents({"move"}, {0}, {Pt(3, 3), Pt(35, 3)}, {"inner"})
                    \cup PointerEvents({"end"}, {0}, {Pt(35, 3)}, {"inner"}),
                TouchEvents({"start"}, ChangedTouches({0}, {Pt(3, 3)}), {"inner"}),
                {10, 150}, MaxEvents + 2),
     (* Two contacts go down and lift together; one of them moves at a time. *)
     swipe2 |->
         Config(<<Binding("inner", "swipe2")>>, {},
                TouchEvents({"start", "end"},
                            {<<Touch(0, Pt(3, 3)), Touch(1, Pt(4, 3))>>}, {"inner"})
                    \cup TouchEvents({"move"},
                                     ChangedTouches({0}, {Pt(3, 3), Pt(7, 3)})
                                         \cup ChangedTouches({1}, {Pt(4, 3), Pt(8, 3)}),
                                     {"inner"}),
                {10}, MaxEvents + 2),
     (* A tap bound once: the binding is to be removed when its event is emitted. *)
     onceTap |-> OneTap(<<BindOnce("inner", "tap")>>),
     (* A mouse with any buttons down or none on every event, and a tap. *)
     buttons |->
         [bindings |-> <<Binding("inner", "tap")>>, ticks |-> {100, 400},
          maxEvents |-> MaxEvents + 1,
          pointerEvents |-> PointerEvents(EventTypes, {0}, {Pt(3, 3)}, {"inner"}),
          touchEvents |-> TouchEvents({"start"}, ChangedTouches({0}, {Pt(3, 3)}),
                                      {"inner"})],
     (* Contacts at the left edge of the page, where x is zero or less, on a *)
     (* region bound to rotate and pan.                                      *)
     edge |->
         Config(<<Binding("region", "rotate"), Binding("region", "pan")>>,
                PointerEvents(EventTypes, {0}, {Pt(-1, 3), Pt(1, 3)}, {"region"}),
                TouchEvents(EventTypes, ChangedTouches({0, 1}, {Pt(-1, 3), Pt(0, 5)}),
                            {"region"}),
                {10}, MaxEvents),
     (* Two contacts that start inside the inner element, on its left edge, or *)
     (* outside every bound element.                                           *)
     bounds |->
         Config(<<Binding("inner", "tap"), Binding("outer", "pan")>>,
                PointerEvents(EventTypes, {0}, {Pt(3, 3), Pt(2, 3)}, {"inner"}),
                TouchEvents(EventTypes,
                            ChangedTouches({0, 1}, {Pt(3, 3), Pt(2, 3), Pt(9, 9)}),
                            {"inner"}),
                {100}, MaxEvents),
     (* A pointer that starts at the origin of the page and goes right or down, *)
     (* on a region bound to pan.                                               *)
     origin |->
         Config(<<Binding("region", "pan")>>,
                PointerEvents({"start"}, {0}, {Pt(0, 0)}, {"region"})
                    \cup PointerEvents({"move", "end"}, {0},
                                       {Pt(0, 0), Pt(5, 0), Pt(0, 5)}, {"region"}),
                TouchEvents({"start"}, ChangedTouches({0}, {Pt(0, 0)}), {"region"}),
                {10, 20}, MaxEvents + 1),
     (* One pointer that goes down and moves more often than a swipe keeps *)
     (* samples.                                                           *)
     stack |->
         Config(<<Binding("inner", "swipe")>>,
                PointerEvents(EventTypes, {0}, {Pt(3, 3)}, {"inner"})
                    \cup PointerEvents({"move"}, {0}, {Pt(4, 3)}, {"inner"}),
                TouchEvents({"start"}, ChangedTouches({0}, {Pt(3, 3)}), {"inner"}),
                {10}, MaxEvents + Gestures.swipe.maxProgressStack - 1),
     (* Two contacts that land one after the other, the left one first or the *)
     (* right one first, and then move.                                       *)
     landing |->
         Config(<<Binding("inner", "rotate")>>,
                PointerEvents(EventTypes, {0}, {Pt(3, 3)}, {"inner"}),
                TouchEvents({"start"},
                            ChangedTouches({0}, {Pt(3, 3), Pt(5, 3)})
                                \cup ChangedTouches({1}, {Pt(3, 3), Pt(5, 3)}),
                            {"inner"})
                    \cup TouchEvents({"move"},
                                     ChangedTouches({0}, {Pt(4, 5)})
                                         \cup ChangedTouches({1}, {Pt(4, 5)}),
                                     {"inner"}),
                {10}, MaxEvents + 1),
     (* A contact that is dragged out of the region, alone or with a second *)
     (* contact down; contact 0 is tracked whenever any contact is.         *)
     leave |->
         Config(<<Binding("inner", "pan")>>,
                PointerEvents({"start"}, {0}, {Pt(3, 3)}, {"inner"})
                    \cup PointerEvents({"move", "end"}, {0},
                                       {Pt(3, 3), Pt(5, 3), Pt(50, 3)}, {"inner"}),
                TouchEvents({"start"},
                            {<<Touch(0, Pt(3, 3))>>,
                             <<Touch(0, Pt(3, 3)), Touch(1, Pt(4, 3))>>}, {"inner"}),
                {10}, MaxEvents + 1),
     dispatch |-> AnyTarget(<<Binding("outer", "pan"), Binding("inner", "pan"),
                              Binding("inner", "pan"), Binding("outer", "rotate1"),
                              Binding("inner", "rotate1")>>),
     once |-> AnyTarget(<<BindOnce("inner", "pan"), Binding("inner", "rotate1")>>),
     nestPanOI |-> OneContact(Nested("pan", TRUE)),
     nestPanIO |-> OneContact(Nested("pan", FALSE)),
     nestTapOI |-> OneContact(Nested("tap", TRUE)),
     nestTapIO |-> OneContact(Nested("tap", FALSE)),
     nestSwipeOI |-> OneContact(Nested("swipe", TRUE)),
     nestSwipeIO |-> OneContact(Nested("swipe", FALSE)),
     nestPinchOI |-> TwoContacts(Nested("pinch", TRUE)),
     nestPinchIO |-> TwoContacts(Nested("pinch", FALSE)),
     nestRotateOI |-> TwoContacts(Nested("rotate", TRUE)),
     nestRotateIO |-> TwoContacts(Nested("rotate", FALSE))]

NestedConfigs ==
    {"nestPanOI", "nestPanIO", "nestTapOI", "nestTapIO", "nestSwipeOI",
     "nestSwipeIO", "nestPinchOI", "nestPinchIO", "nestRotateOI", "nestRotateIO"}

-----------------------------------------------------------------------------
(* The state machine *)

StartTime == 1000

NoEvent ==
    [ev |-> [type |-> "none", touches |-> <<>>, buttons |-> None,
             target |-> "region"],
     step |-> "none", candidates |-> <<>>, forwarded |-> <<>>, threw |-> FALSE]

InitWith(configs) ==
    /\ cfg \in configs
    /\ inputs = <<>>
    /\ now = StartTime
    /\ nEvents = 0
    /\ last = NoEvent

(* One raw event handled by the region's listener, dt ms after the last one. *)
Handle(ev, dt) ==
    \E r \in {arbiter(Configs[cfg], inputs, ev, now + dt)} :
       /\ nEvents < Configs[cfg].maxEvents
       /\ inputs' = r.inputs
       /\ now' = now + dt
       /\ nEvents' = nEvents + 1
       /\ last' = [ev |-> ev, step |-> r.step, candidates |-> r.candidates,
                   forwarded |-> r.forwarded, threw |-> r.threw]
       /\ UNCHANGED cfg

PointerInput ==
    \E ev \in Configs[cfg].pointerEvents, dt \in Configs[cfg].ticks : Handle(ev, dt)

TouchInput ==
    \E ev \in Configs[cfg].touchEvents, dt \in Configs[cfg].ticks : Handle(ev, dt)

Next == PointerInput \/ TouchInput

SpecNested == InitWith(NestedConfigs) /\ [][Next]_vars

DispatchConfigs == {"dispatch", "once"}

PanConfigs == {"pan"}

SpecPan == InitWith(PanConfigs) /\ [][Next]_vars

TapConfigs == {"tap", "tap2"}

PinchConfigs == {"pinch"}

SpecPinch == InitWith(PinchConfigs) /\ [][Next]_vars

RotateConfigs == {"rotate1", "rotate3"}

SpecRotate == InitWith(RotateConfigs) /\ [][Next]_vars

SwipeConfigs == {"swipe", "swipe2"}

BatchConfigs == {"onceTap", "tap2", "pinch"}

SpecBatch == InitWith(BatchConfigs) /\ [][Next]_vars

ButtonsConfigs == {"buttons"}

SpecButtons == InitWith(ButtonsConfigs) /\ [][Next]_vars

EdgeConfigs == {"edge"}

SpecEdge == InitWith(EdgeConfigs) /\ [][Next]_vars

BoundsConfigs == {"bounds"}

SpecBounds == InitWith(BoundsConfigs) /\ [][Next]_vars

OriginConfigs == {"origin"}

SpecOrigin == InitWith(OriginConfigs) /\ [][Next]_vars

StackConfigs == {"stack"}

SpecStack == InitWith(StackConfigs) /\ [][Next]_vars

LandingConfigs == {"landing", "rotate1"}

SpecLanding == InitWith(LandingConfigs) /\ [][Next]_vars

ThirdContactConfigs == {"pinch", "rotate3"}

SpecThirdContact == InitWith(ThirdContactConfigs) /\ [][Next]_vars

LeaveConfigs == {"leave"}

SpecLeave == InitWith(LeaveConfigs) /\ [][Next]_vars

SpecSwipe == InitWith(SwipeConfigs) /\ [][Next]_vars

SpecTap == InitWith(TapConfigs) /\ [][Next]_vars

SpecDispatch == InitWith(DispatchConfigs) /\ [][Next]_vars

-----------------------------------------------------------------------------
(* Shorthands for the properties *)

(* The inputs the step's event leaves after State.updateInputs, before any *)
(* recognizer has run.                                                     *)
Updated == updateInputs(Configs[cfg], inputs, last'.ev.type, last'.ev.touches)

(* What the hook of binding b returns on the step's event when it is the only *)
(* one evaluated.                                                             *)
Alone(b) ==
    Hook(Gestures[Configs[cfg].bindings[b].gesture], last'.ev.type, Updated,
         Configs[cfg].bindings[b].element, now')

ElementOf(entry) == Configs[cfg].bindings[entry.binding].element

-----------------------------------------------------------------------------
(* C1: two bindings of one gesture kind on nested elements, an event whose    *)
(* path holds both elements and that satisfies the recognizer for both (each  *)
(* hook, evaluated alone on the updated inputs, returns a result): exactly    *)
(* one (binding, result) is forwarded and it is the inner element's binding,  *)
(* for every kind and either registration order.                              *)
C1_Step ==
    (/\ cfg \in NestedConfigs
     /\ last'.step = "interpreted"
     /\ last'.ev.target = "inner"
     /\ \A b \in 1..2 : Alone(b).data # None)
    => /\ Len(last'.forwarded) = 1
       /\ ElementOf(last'.forwarded[1]) = "inner"

C1_InnermostWins == [][C1_Step]_vars


-----------------------------------------------------------------------------
(* C2: on every raw event at most one (binding, result) per gesture identity  *)
(* is forwarded, and exactly one whenever some binding of that identity       *)
(* returned a result; the forwarded one is a candidate of the smallest path   *)
(* index (an element off the path counts as path.length), the earliest        *)
(* registered among those.                                                    *)
CandidateIds == {last.candidates[k].id : k \in 1..Len(last.candidates)}

CandidatesOf(id) == {k \in 1..Len(last.candidates) : last.candidates[k].id = id}

ForwardedOf(id) == {k \in 1..Len(last.forwarded) : last.forwarded[k].id = id}

PathIndexOf(entry) ==
    getPathIndex(getPropagationPath(last.ev.target),
                 Configs[cfg].bindings[entry.binding].element)

IsWinner(entry, id) ==
    \A k \in CandidatesOf(id) :
        \/ PathIndexOf(entry) < PathIndexOf(last.candidates[k])
        \/ /\ PathIndexOf(entry) = PathIndexOf(last.candidates[k])
           /\ entry.binding <= last.candidates[k].binding

C2_OneWinnerPerIdentity ==
    /\ \A k \in 1..Len(last.forwarded) :
           /\ last.forwarded[k].id \in CandidateIds
           /\ Cardinality(ForwardedOf(last.forwarded[k].id)) = 1
    /\ \A id \in CandidateIds :
           /\ Cardinality(ForwardedOf(id)) = 1
           /\ \A k \in ForwardedOf(id) :
                  /\ \E j \in CandidatesOf(id) : last.candidates[j] = last.forwarded[k]
                  /\ IsWinner(last.forwarded[k], id)

-----------------------------------------------------------------------------
(* The gesture of the configuration's first binding and its scratch on an input. *)
Bound == Gestures[Configs[cfg].bindings[1].gesture]

Scratch(input) == getGestureProgress(input, ProgressKey(Bound))

(* C3: a Pan binding whose numInputs matches the input count, on a Move: an   *)
(* input whose Euclidean displacement from its lastEmitted point is below the *)
(* threshold yields no emission and keeps lastEmitted; at or above the        *)
(* threshold it yields exactly one emission whose change is the vector        *)
(* current - lastEmitted, and lastEmitted becomes the current position.       *)
PanDisplacement(input) ==
    distanceBetweenTwoPoints(Scratch(input).lastEmitted[1].x, input.current.x,
                             Scratch(input).lastEmitted[1].y, input.current.y)

C3_Step ==
    (/\ cfg \in PanConfigs
     /\ last'.step = "interpreted"
     /\ last'.ev.type = "move"
     /\ Len(Updated) = Bound.numInputs
     /\ Scratch(Updated[1]).lastEmitted # None)
    => IF PanDisplacement(Updated[1]) < 100 * Bound.threshold
       THEN /\ last'.forwarded = <<>>
            /\ Scratch(inputs'[1]).lastEmitted = Scratch(Updated[1]).lastEmitted
       ELSE /\ Len(last'.forwarded) = 1
            /\ last'.forwarded[1].data.data[1] # None
            /\ last'.forwarded[1].data.data[1][1].change =
                   [x |-> Updated[1].current.x - Scratch(Updated[1]).lastEmitted[1].x,
                    y |-> Updated[1].current.y - Scratch(Updated[1]).lastEmitted[1].y]
            /\ Scratch(inputs'[1]).lastEmitted =
                   Some([x |-> Updated[1].current.x, y |-> Updated[1].current.y])

C3_PanThreshold == [][C3_Step]_vars

-----------------------------------------------------------------------------
(* C4: on an End event Tap emits {interval} if and only if the input count    *)
(* is numInputs, every input is in the end phase, no input moved more than    *)
(* tolerance between two consecutive samples (an earlier excess has emptied   *)
(* the scratch; the final End sample is compared with the sample before it)   *)
(* and minDelay <= interval <= maxDelay, interval being the time since the    *)
(* earliest recorded Start.                                                   *)
AllEnded(inp) == \A i \in 1..Len(inp) : getCurrentEventType(inp[i]) = "end"

EarliestStart(inp) ==
    CHOOSE s \in {Scratch(inp[i]).start[1] : i \in 1..Len(inp)} :
        \A i \in 1..Len(inp) : s <= Scratch(inp[i]).start[1]

TapQualifies(inp, t) ==
    /\ Len(inp) = Bound.numInputs
    /\ AllEnded(inp)
    /\ \A i \in 1..Len(inp) :
           /\ Scratch(inp[i]).start # None
           /\ isWithin(inp[i].current.x, inp[i].current.y,
                       inp[i].previous.x, inp[i].previous.y, Bound.tolerance)
    /\ Bound.minDelay <= t - EarliestStart(inp)
    /\ t - EarliestStart(inp) <= Bound.maxDelay

C4_Step ==
    (/\ cfg \in TapConfigs
     /\ last'.step = "interpreted"
     /\ last'.ev.type = "end")
    => IF TapQualifies(Updated, now')
       THEN /\ Len(last'.forwarded) = 1
            /\ last'.forwarded[1].data = [interval |-> now' - EarliestStart(Updated)]
       ELSE last'.forwarded = <<>>

C4_TapEmitsIff == [][C4_Step]_vars

-----------------------------------------------------------------------------
(* C5: whenever a Tap attempt is disqualified (a Move beyond tolerance, or on *)
(* End an interval outside [minDelay, maxDelay]) the tap scratch of every     *)
(* tracked input is left empty and nothing is emitted; resetting the reset    *)
(* scratch again leaves it empty; and once the batch is over, a tap in a      *)
(* fresh batch emits what it emits after construction.                        *)
MoveExceedsTolerance(inp) ==
    \E i \in 1..Len(inp) :
        /\ getCurrentEventType(inp[i]) = "move"
        /\ ~isWithin(inp[i].current.x, inp[i].current.y,
                     inp[i].previous.x, inp[i].previous.y, Bound.tolerance)

IntervalOutside(inp, t) ==
    /\ Len(inp) = Bound.numInputs
    /\ AllEnded(inp)
    /\ \A i \in 1..Len(inp) : Scratch(inp[i]).start # None
    /\ \/ t - EarliestStart(inp) < Bound.minDelay
       \/ t - EarliestStart(inp) > Bound.maxDelay

Disqualified(type, inp, t) ==
    \/ type = "move" /\ MoveExceedsTolerance(inp)
    \/ type = "end" /\ IntervalOutside(inp, t)

(* A tap by numInputs fresh contacts at (3,3), 100 ms long, begun 100 ms after *)
(* time t with the inputs inp tracked: what is forwarded on its End.           *)
TapEvent(type) ==
    [type |-> type,
     touches |-> [i \in 1..Bound.numInputs |-> Touch(i - 1, Pt(3, 3))],
     buttons |-> None, target |-> "inner"]

FreshTap(inp, t) ==
    arbiter(Configs[cfg],
            arbiter(Configs[cfg], inp, TapEvent("start"), t + 100).inputs,
            TapEvent("end"), t + 200).forwarded

C5_Step ==
    (/\ cfg \in TapConfigs
     /\ last'.step = "interpreted"
     /\ Disqualified(last'.ev.type, Updated, now'))
    => /\ last'.forwarded = <<>>
       /\ \A i \in 1..Len(Alone(1).inputs) : Scratch(Alone(1).inputs[i]) = EmptyScratch(Bound)
       /\ \A i \in 1..Len(inputs') : Scratch(inputs'[i]) = EmptyScratch(Bound)
       /\ TapReset(Bound, Alone(1).inputs) = Alone(1).inputs
       /\ AllEnded(Updated) =>
              /\ FreshTap(inputs', now') = FreshTap(<<>>, StartTime)
              /\ FreshTap(inputs', now') =
                     <<[binding |-> 1, id |-> getId(Bound), data |-> [interval |-> 100]]>>

C5_TapDisqualified == [][C5_Step]_vars

(* A contact went down and came up 400 ms later: the interval is beyond maxDelay. *)
C5_Witness ==
    /\ cfg = "tap"
    /\ nEvents = 2
    /\ now = StartTime + 800
    /\ last.ev.type = "end"
    /\ last.step = "interpreted"
    /\ last.forwarded = <<>>
    /\ inputs = <<>>

-----------------------------------------------------------------------------
(* C6: Pinch emits on a Move only when exactly two tracked inputs are not in  *)
(* the end phase and |distance - lastEmittedDistance| >= threshold; the       *)
(* payload then has the current distance between those two inputs, change =   *)
(* distance - lastEmittedDistance and their midpoint as center, and           *)
(* lastEmittedDistance changes only on an emission, to the emitted distance.  *)
ActiveInputs(inp) == {i \in 1..Len(inp) : getCurrentEventType(inp[i]) # "end"}

FirstActive(inp) == CHOOSE i \in ActiveInputs(inp) : \A j \in ActiveInputs(inp) : i <= j

SecondActive(inp) == CHOOSE i \in ActiveInputs(inp) : \A j \in ActiveInputs(inp) : j <= i

ActiveDistance(inp) ==
    distanceBetweenTwoPoints(inp[FirstActive(inp)].current.x,
                             inp[SecondActive(inp)].current.x,
                             inp[FirstActive(inp)].current.y,
                             inp[SecondActive(inp)].current.y)

ActiveCenter(inp) ==
    getMidpoint(inp[FirstActive(inp)].current.x, inp[SecondActive(inp)].current.x,
                inp[FirstActive(inp)].current.y, inp[SecondActive(inp)].current.y)

C6_Step ==
    (/\ cfg \in PinchConfigs
     /\ last'.step = "interpreted"
     /\ last'.ev.type = "move")
    => IF last'.forwarded # <<>>
       THEN /\ Cardinality(ActiveInputs(Updated)) = 2
            /\ Scratch(Updated[1]).lastEmittedDistance # None
            /\ Abs(ActiveDistance(Updated) - Scratch(Updated[1]).lastEmittedDistance[1])
                   >= 100 * Bound.threshold
            /\ last'.forwarded[1].data =
                   [distance |-> ActiveDistance(Updated),
                    center |-> ActiveCenter(Updated),
                    change |-> ActiveDistance(Updated)
                                   - Scratch(Updated[1]).lastEmittedDistance[1]]
            /\ Scratch(inputs'[1]).lastEmittedDistance = Some(ActiveDistance(Updated))
       ELSE Scratch(inputs'[1]).lastEmittedDistance
                = Scratch(Updated[1]).lastEmittedDistance

C6_PinchEmission == [][C6_Step]_vars

-----------------------------------------------------------------------------
(* C7: on every Rotate emission distanceFromOrigin is the sum of all the      *)
(* distanceFromLast emitted so far in the batch, distanceFromLast lies in     *)
(* [-180, 180], and neither depends on the time of the event.  Every emission *)
(* adds its distanceFromLast to the distance kept on the input it measured    *)
(* and nothing else changes that field, so the sum emitted so far is the sum  *)
(* of that field over the batch's inputs.                                     *)
RECURSIVE SumOfDistances(_, _)
SumOfDistances(inp, i) ==
    IF i > Len(inp) THEN 0 ELSE Scratch(inp[i]).distance + SumOfDistances(inp, i + 1)

RotateEmitted ==
    /\ cfg \in RotateConfigs
    /\ last'.step = "interpreted"
    /\ last'.ev.type = "move"
    /\ last'.forwarded # <<>>

C7_Step ==
    RotateEmitted
    => /\ last'.forwarded[1].data.distanceFromOrigin = SumOfDistances(inputs', 1)
       /\ last'.forwarded[1].data.distanceFromLast >= -HALF_CIRCLE_DEGREES
       /\ last'.forwarded[1].data.distanceFromLast <= HALF_CIRCLE_DEGREES
       /\ Hook(Bound, "move", Updated, "inner", StartTime).data
              = Some(last'.forwarded[1].data)

C7_RotateSum == [][C7_Step]_vars

-----------------------------------------------------------------------------
(* C8: the angular distance of a Rotate step is the signed shortest arc: a    *)
(* function of (cur - prev) modulo 360 alone, with the sign the steps that do *)
(* not cross 0/360 have (a growing angle counts negative), and                *)
(* D(a, b) = -D(b, a).                                                        *)
ShortestArc(prev, cur) ==
    IF (cur - prev) % CIRCLE_DEGREES <= HALF_CIRCLE_DEGREES
    THEN -((cur - prev) % CIRCLE_DEGREES)
    ELSE CIRCLE_DEGREES - ((cur - prev) % CIRCLE_DEGREES)

Measured(inp) == inp[RotateInput(inp, numActiveInputs(inp))]

C8_Step ==
    (RotateEmitted /\ Scratch(Measured(Updated)).previousAngle # None)
    => /\ \/ last'.forwarded[1].data.distanceFromLast
                 = ShortestArc(Scratch(Measured(Updated)).previousAngle[1],
                               last'.forwarded[1].data.angle)
          \/ /\ Abs(last'.forwarded[1].data.distanceFromLast) = HALF_CIRCLE_DEGREES
             /\ Abs(ShortestArc(Scratch(Measured(Updated)).previousAngle[1],
                                last'.forwarded[1].data.angle)) = HALF_CIRCLE_DEGREES
       /\ getAngularDistance(Scratch(Measured(Updated)).previousAngle[1],
                             last'.forwarded[1].data.angle)
              = -getAngularDistance(last'.forwarded[1].data.angle,
                                    Scratch(Measured(Updated)).previousAngle[1])

C8_ShortestArc == [][C8_Step]_vars

-----------------------------------------------------------------------------
(* C9: a Swipe with numInputs >= 2, on the End that completes the batch:      *)
(* something is emitted only if every tracked input has a computed velocity   *)
(* and none of them is below escapeVelocity.                                  *)
C9_Step ==
    (/\ cfg \in SwipeConfigs
     /\ Bound.numInputs >= 2
     /\ last'.step = "interpreted"
     /\ last'.ev.type = "end"
     /\ last'.forwarded # <<>>)
    => \A i \in 1..Len(Updated) :
           /\ last'.forwarded[1].data.data[i] # None
           /\ ~VelocityBelow(last'.forwarded[1].data.data[i][1].velocity,
                             Bound.escapeVelocity)

C9_SlowInputSuppresses == [][C9_Step]_vars

-----------------------------------------------------------------------------
(* C10: Swipe emits only on an End at which the input count is numInputs,     *)
(* every input is in the end phase and has at least 3 recorded move samples,  *)
(* and the final sample is at most maxRestTime later than the last sample     *)
(* before it that has another timestamp.                                      *)
Samples(input) == Scratch(input).moves

RestGap(moves) ==
    IF SwipeLastMove(moves, moves[Len(moves)]) = 0 THEN 0
    ELSE moves[Len(moves)].time - moves[SwipeLastMove(moves, moves[Len(moves)])].time

C10_Step ==
    (/\ cfg \in SwipeConfigs
     /\ last'.step = "interpreted"
     /\ last'.forwarded # <<>>)
    => /\ last'.ev.type = "end"
       /\ Len(Updated) = Bound.numInputs
       /\ AllEnded(Updated)
       /\ \A i \in 1..Len(Updated) :
              /\ Len(Samples(Updated[i])) >= 3
              /\ RestGap(Samples(Updated[i])) <= Bound.maxRestTime

C10_SwipeEmitsOnlyIf == [][C10_Step]_vars

-----------------------------------------------------------------------------
(* C11: after every processed event the input set is empty or holds an input  *)
(* that is not in the end phase; an event that leaves every tracked input in  *)
(* the end phase purges them all, and only after the hooks have run on them   *)
(* and their winners have been dispatched.                                    *)
Interpreted ==
    interpreter(Configs[cfg], retrieveBindingsByInitialPos(Configs[cfg], Updated),
                last'.ev.type, Updated, now', <<>>)

C11_Step ==
    (last'.step \in {"interpreted", "unbound"})
    => /\ inputs' = <<>> \/ ~AllEnded(inputs')
       /\ (Updated # <<>> /\ AllEnded(Updated))
              => /\ inputs' = <<>>
                 /\ last'.candidates = Interpreted.candidates
                 /\ last'.forwarded =
                        toBeDispatched(Configs[cfg], getPropagationPath(last'.ev.target),
                                       Interpreted.candidates)

C11_BatchCompletion == [][C11_Step]_vars

-----------------------------------------------------------------------------
(* C12: a Start for an identifier that is untracked, or whose tracked input   *)
(* is in the end phase while another contact is active: after the update the  *)
(* region tracks one new input for it, initial = current = previous = the     *)
(* event and empty progress, in place of the ended one, and every other       *)
(* tracked input is as it was.  Stated of State.updateInputs of bundle.js and *)
(* of State.updateAllInputs of src/core.                                      *)
Ids(touches) == {touches[k].identifier : k \in 1..Len(touches)}

(* The tracked inputs as the array of src/core: identifier -> input. *)
ById(inp) ==
    [id \in {inp[i].identifier : i \in 1..Len(inp)} |-> inp[findInput(inp, id)]]

FreshOrEnded(inp, touches) ==
    \A k \in 1..Len(touches) :
        \/ findInput(inp, touches[k].identifier) = 0
        \/ /\ getCurrentEventType(inp[findInput(inp, touches[k].identifier)]) = "end"
           /\ ~AllEnded(inp)

Replaced(c, before, after, touches) ==
    /\ DOMAIN after = DOMAIN before \cup Ids(touches)
    /\ \A k \in 1..Len(touches) :
           after[touches[k].identifier] = Input(c, "start", touches[k])
    /\ \A id \in DOMAIN before \ Ids(touches) : after[id] = before[id]

C12_Step ==
    (/\ last'.step \in {"interpreted", "unbound"}
     /\ last'.ev.type = "start"
     /\ FreshOrEnded(inputs, last'.ev.touches))
    => /\ Len(Updated) = Cardinality(DOMAIN ById(Updated))
       /\ Replaced(Configs[cfg], ById(inputs), ById(Updated), last'.ev.touches)
       /\ Replaced(Configs[cfg], ById(inputs),
                   State_updateAllInputs(Configs[cfg], ById(inputs), "start",
                                         last'.ev.touches),
                   last'.ev.touches)

C12_StartCreatesInput == [][C12_Step]_vars

-----------------------------------------------------------------------------
(* C13: the initial event of a tracked input is the Start it was created from *)
(* and never changes; an update sets previous to the old current and current  *)
(* to the new event; the phase is the type of current; an update of one input *)
(* changes no other input.  Stated of the inputs State.updateInputs leaves,   *)
(* of what the hooks leave of them, and of State.updateAllInputs of src/core. *)
TouchOf(touches, id) == touches[CHOOSE k \in 1..Len(touches) : touches[k].identifier = id]

Shifted(before, after, type, touches) ==
    /\ DOMAIN after = DOMAIN before
    /\ \A id \in DOMAIN before :
           /\ after[id].initial = before[id].initial
           /\ after[id].identifier = id
           /\ after[id].progress = before[id].progress
           /\ IF id \in Ids(touches)
              THEN /\ after[id].previous = before[id].current
                   /\ after[id].current = ZingEvent(type, TouchOf(touches, id))
                   /\ getCurrentEventType(after[id]) = type
              ELSE /\ after[id].previous = before[id].previous
                   /\ after[id].current = before[id].current

C13_Step ==
    /\ (/\ last'.step \in {"interpreted", "unbound"}
        /\ last'.ev.type # "start"
        /\ Updated # <<>>)
       => /\ Shifted(ById(inputs), ById(Updated), last'.ev.type, last'.ev.touches)
          /\ Shifted(ById(inputs),
                     State_updateAllInputs(Configs[cfg], ById(inputs), last'.ev.type,
                                           last'.ev.touches),
                     last'.ev.type, last'.ev.touches)
    /\ (last'.step \in {"interpreted", "unbound"} /\ inputs' # <<>>)
       => /\ Len(inputs') = Len(Updated)
          /\ \A i \in 1..Len(inputs') :
                 /\ inputs'[i].initial = Updated[i].initial
                 /\ inputs'[i].current = Updated[i].current
                 /\ inputs'[i].previous = Updated[i].previous
                 /\ inputs'[i].initial.type = "start"
                 /\ getCurrentEventType(inputs'[i]) = inputs'[i].current.type

-----------------------------------------------------------------------------
(* C14: in every reachable state no two tracked inputs have the same          *)
(* identifier, whatever Start/Move/End events came, touch events that change  *)
(* several identifiers at once included.                                      *)
C14_UniqueIds ==
    \A i, j \in 1..Len(inputs) :
        inputs[i].identifier = inputs[j].identifier => i = j

(* Three contacts tracked, the last event a touchstart of one more contact   *)
(* after a touchstart of two at once.                                        *)
C14_Witness ==
    /\ Len(inputs) = 3
    /\ last.ev.type = "start"
    /\ {inputs[i].identifier : i \in 1..Len(inputs)} = {0, 1, 2}

-----------------------------------------------------------------------------
(* C15: a Move or an End for an identifier that has no tracked input creates  *)
(* no input and emits nothing, and the region's inputs are empty after it,    *)
(* even if other identifiers were tracked and active.  State.updateAllInputs  *)
(* of src/core, whose caller decides what becomes of the region, is held to   *)
(* creating no input.                                                         *)
Untracked(id) == findInput(inputs, id) = 0

C15_Step ==
    (/\ last'.ev.type \in {"move", "end"}
     /\ \E k \in 1..Len(last'.ev.touches) : Untracked(last'.ev.touches[k].identifier))
    => /\ inputs' = <<>>
       /\ last'.candidates = <<>>
       /\ last'.forwarded = <<>>
       /\ ~last'.threw
       /\ DOMAIN State_updateAllInputs(Configs[cfg], ById(inputs), last'.ev.type,
                                       last'.ev.touches)
              = DOMAIN ById(inputs)

-----------------------------------------------------------------------------
(* C16: when the event reports its buttons, a Start or a Move that carries no *)
(* pressed button while inputs are tracked (a Start at any time) forces       *)
(* resetInputs: the inputs are empty afterwards, no recognizer runs and       *)
(* nothing is emitted; an End is never discarded by this rule, whatever its   *)
(* buttons, and is interpreted as any other End.                              *)
NoButtons(ev) == ev.buttons # None /\ ev.buttons[1] = 0

Discarded ==
    /\ last'.step = "buttons"
    /\ inputs' = <<>>
    /\ last'.candidates = <<>>
    /\ last'.forwarded = <<>>

C16_Step ==
    /\ (NoButtons(last'.ev) /\ last'.ev.type = "move" /\ inputs # <<>>) => Discarded
    /\ (NoButtons(last'.ev) /\ last'.ev.type = "start") => Discarded
    /\ (last'.ev.type = "end" /\ inputs # <<>>)
       => /\ last'.step \in {"interpreted", "unbound"}
          /\ last'.candidates = Interpreted.candidates
    /\ ~NoButtons(last'.ev) => last'.step # "buttons"

C16_ButtonsRule == [][C16_Step]_vars

(* A mousemove with no button down, after inputs were tracked. *)
C16_Witness ==
    /\ last.ev.type = "move"
    /\ NoButtons(last.ev)
    /\ last.step = "buttons"
    /\ inputs = <<>>

(* C16 as stated: a Move or an End with no button down is discarded while    *)
(* inputs are tracked, and a Start never is.                                  *)
C16_OriginalStep ==
    /\ (NoButtons(last'.ev) /\ last'.ev.type \in {"move", "end"} /\ inputs # <<>>)
       => Discarded
    /\ last'.ev.type = "start" => last'.step # "buttons"

C16_MoveOrEndDiscarded == [][C16_OriginalStep]_vars

-----------------------------------------------------------------------------
(* C17: no sequence of well-formed Start/Move/End events, whatever the        *)
(* identifiers, the positions (zero and negative coordinates included) and    *)
(* the interleaving, raises an exception out of the processing of an event.   *)
C17_NeverThrows == ~last.threw

-----------------------------------------------------------------------------
(* C18: when a binding bound once wins and is removed during the dispatch of  *)
(* an event, every winner resolved for that event is still dispatched, and    *)
(* the step after the dispatch still runs: the inputs are purged when all of  *)
(* them are in the end phase.                                                 *)
Winners ==
    toBeDispatched(Configs[cfg], getPropagationPath(last'.ev.target),
                   Interpreted.candidates)

C18_Step ==
    (/\ last'.step = "interpreted"
     /\ \E k \in 1..Len(Winners) : Configs[cfg].bindings[Winners[k].binding].bindOnce)
    => /\ last'.forwarded = Winners
       /\ inputs' = endPurge(Interpreted.inputs)

C18_RemovalDuringDispatch == [][C18_Step]_vars

-----------------------------------------------------------------------------
(* C19: on every event a binding is offered to its recognizer if and only if  *)
(* some input the region tracks, active or ended and wherever it is now, has  *)
(* its initial position inside the bounds of the binding's element (a closed  *)
(* interval test, C20); a binding no tracked input started inside is not      *)
(* evaluated and emits nothing.                                               *)
Offered ==
    IF last'.step \in {"interpreted", "unbound"}
    THEN retrieveBindingsByInitialPos(Configs[cfg], Updated)
    ELSE <<>>

Tracked == IF last'.step \in {"interpreted", "unbound"} THEN Updated ELSE inputs'

StartedInside(inp, b) ==
    \E i \in 1..Len(inp) :
        LET r == getBoundingClientRect(Configs[cfg].bindings[b].element)
        IN /\ r.left <= inp[i].initial.x /\ inp[i].initial.x <= r.left + r.width
           /\ r.top <= inp[i].initial.y /\ inp[i].initial.y <= r.top + r.height

C19_Step ==
    /\ \A b \in 1..Len(Configs[cfg].bindings) :
           (\E k \in 1..Len(Offered) : Offered[k] = b) <=> StartedInside(Tracked, b)
    /\ \A k \in 1..Len(last'.candidates) :
           StartedInside(Tracked, last'.candidates[k].binding)
    /\ \A k \in 1..Len(last'.forwarded) :
           StartedInside(Tracked, last'.forwarded[k].binding)

C19_OfferedIffStartedInside == [][C19_Step]_vars

-----------------------------------------------------------------------------
(* C20: containment is the closed-interval test against the rectangle: a      *)
(* point with left <= x <= left + width and top <= y <= top + height is       *)
(* inside, and no other; an input whose initial position is on an edge or a   *)
(* corner of a binding's bounds makes the binding addressable.  Stated of     *)
(* util.isInside of the bundle and of Point2D.isInside of src/core, on the    *)
(* initial positions of the tracked inputs.                                   *)
InClosedRect(x, y, r) ==
    /\ r.left <= x /\ x <= r.left + r.width
    /\ r.top <= y /\ y <= r.top + r.height

C20_Step ==
    \A b \in 1..Len(Configs[cfg].bindings), i \in 1..Len(Tracked) :
        LET r == getBoundingClientRect(Configs[cfg].bindings[b].element)
            p == Tracked[i].initial
        IN /\ isInside(p.x, p.y, r) <=> InClosedRect(p.x, p.y, r)
           /\ Point2D_isInside(p.x, p.y, r) <=> InClosedRect(p.x, p.y, r)
           /\ InClosedRect(p.x, p.y, r) => \E k \in 1..Len(Offered) : Offered[k] = b

C20_ClosedContainment == [][C20_Step]_vars

-----------------------------------------------------------------------------
(* C21: a tracked input in the end phase is inert: no later Move or End, of   *)
(* whatever identifier, changes its current or previous event or its phase;   *)
(* it stays as it is until the inputs are purged.  Stated of the inputs the   *)
(* arbiter leaves and of State.updateAllInputs of src/core.                   *)
SameEvents(a, b) == a.current = b.current /\ a.previous = b.previous

C21_Step ==
    (last'.ev.type \in {"move", "end"})
    => \A i \in 1..Len(inputs) :
           getCurrentEventType(inputs[i]) = "end"
           => /\ \/ inputs' = <<>>
                 \/ \E j \in 1..Len(inputs') :
                        /\ inputs'[j].identifier = inputs[i].identifier
                        /\ SameEvents(inputs'[j], inputs[i])
              /\ SameEvents(State_updateAllInputs(Configs[cfg], ById(inputs),
                                last'.ev.type, last'.ev.touches)[inputs[i].identifier],
                            inputs[i])

C21_EndedInputInert == [][C21_Step]_vars

-----------------------------------------------------------------------------
(* C22: a Pan emission carries, for each input, distanceFromOrigin, the       *)
(* distance from the input's initial position to its current one, and         *)
(* directionFromOrigin, the angle of that displacement in [0, 360), 0 for a   *)
(* displacement to the right: a pointer that starts at (0,0) and moves to     *)
(* (5,0) under threshold 1 emits change (5,0), distance 5, direction 0.       *)
PanPayloadRight(d, input) ==
    LET dx == input.current.x - input.initial.x
        dy == input.current.y - input.initial.y
    IN /\ dy = 0 => d.distanceFromOrigin = 100 * Abs(dx)
       /\ dx = 0 => d.distanceFromOrigin = 100 * Abs(dy)
       /\ 0 <= d.directionFromOrigin /\ d.directionFromOrigin < CIRCLE_DEGREES
       /\ (dy = 0 /\ dx > 0) => d.directionFromOrigin = 0
       /\ (input.initial.x = 0 /\ input.initial.y = 0 /\ input.previous.type = "start"
              /\ input.current.x = 5 /\ input.current.y = 0)
          => d.change = [x |-> 5, y |-> 0]

C22_PanPayload ==
    \A k \in 1..Len(last.forwarded) :
        Configs[cfg].bindings[last.forwarded[k].binding].gesture = "pan"
        => \A i \in 1..Len(last.forwarded[k].data.data) :
               last.forwarded[k].data.data[i] # None
               => PanPayloadRight(last.forwarded[k].data.data[i][1], inputs[i])

-----------------------------------------------------------------------------
(* C23: after any number of Moves in a batch, the samples a Swipe holds for   *)
(* an input are never more than maxProgressStack (10 by default).             *)
C23_BoundedSamples ==
    \A i \in 1..Len(inputs) :
        Bound.cls = "Swipe" => Len(Scratch(inputs[i]).moves) <= Bound.maxProgressStack

-----------------------------------------------------------------------------
(* C24: with two inputs Rotate measures the angle of the right-most input,    *)
(* the one with the greatest initial x, about the midpoint of the two,        *)
(* whatever the order the contacts landed in; with one input it measures the  *)
(* input about the centre of the bound element.                               *)
RightMost(inp) ==
    CHOOSE i \in 1..Len(inp) : \A j \in 1..Len(inp) : inp[j].initial.x <= inp[i].initial.x

AngleAbout(px, py, input) == getAngle(px, py, 2 * input.current.x, 2 * input.current.y)

C24_Step ==
    (/\ last'.step = "interpreted" /\ last'.ev.type = "move" /\ ~last'.threw
     /\ Bound.cls = "Rotate" /\ Len(last'.candidates) = 1
     /\ \A i \in 1..Len(Updated) : getCurrentEventType(Updated[i]) # "end")
    => /\ (Bound.numInputs = 2 /\ Len(Updated) = 2
              /\ Updated[1].initial.x # Updated[2].initial.x)
          => last'.candidates[1].data.angle =
                 AngleAbout(Updated[1].current.x + Updated[2].current.x,
                            Updated[1].current.y + Updated[2].current.y,
                            Updated[RightMost(Updated)])
       /\ (Bound.numInputs = 1 /\ Len(Updated) = 1)
          => LET rect == getBoundingClientRect(Configs[cfg].bindings[1].element)
             IN last'.candidates[1].data.angle =
                    AngleAbout(2 * rect.left + rect.width, 2 * rect.top + rect.height,
                               Updated[1])

C24_RightMostAboutMidpoint == [][C24_Step]_vars

-----------------------------------------------------------------------------
(* The State of src/core on its own.  State.inputs is a JavaScript array     *)
(* indexed by the identifier: here the record of its entries that hold an    *)
(* Input (tracked, a function of the identifier) and its length; a hole and  *)
(* an entry set to undefined are both an identifier outside the domain of    *)
(* tracked.                                                                  *)

Max(a, b) == IF a >= b THEN a ELSE b

(* The length of the array after State.updateAllInputs(event): a start *)
(* assigns inputs[identifier].                                         *)
RECURSIVE State_lengthAfter(_, _, _)
State_lengthAfter(length, type, touches) ==
    IF touches = <<>> \/ type # "start" THEN length
    ELSE State_lengthAfter(Max(length, Head(touches).identifier + 1), type, Tail(touches))

(* State.getInputsInPhase(phase): the identifiers of the inputs it returns. *)
State_getInputsInPhase(state, phase) ==
    {id \in DOMAIN state.tracked : getCurrentEventType(state.tracked[id]) = phase}

(* State.hasOnlyEndedInputs(). *)
State_hasOnlyEndedInputs(state) ==
    Cardinality(State_getInputsInPhase(state, "end")) = state.length

(* State.clearEndedInputs(): map keeps the length of the array. *)
State_clearEndedInputs(state) ==
    [tracked |-> [id \in DOMAIN state.tracked \ State_getInputsInPhase(state, "end")
                     |-> state.tracked[id]],
     length |-> state.length]

(* State.resetInputs(), and the constructor. *)
State_resetInputs == [tracked |-> <<>>, length |-> 0]

CoreInit ==
    /\ cfg \in {"pinch"}
    /\ inputs = State_resetInputs
    /\ now = StartTime
    /\ nEvents = 0
    /\ last = NoEvent

CoreStep(ev, step, state) ==
    /\ nEvents < Configs[cfg].maxEvents + 1
    /\ inputs' = state
    /\ now' = now + 10
    /\ nEvents' = nEvents + 1
    /\ last' = [NoEvent EXCEPT !.ev = ev, !.step = step]
    /\ UNCHANGED cfg

CoreUpdateAllInputs ==
    \E ev \in Configs[cfg].touchEvents \cup Configs[cfg].pointerEvents :
        CoreStep(ev, "update",
                 [tracked |-> State_updateAllInputs(Configs[cfg], inputs.tracked,
                                                    ev.type, ev.touches),
                  length |-> State_lengthAfter(inputs.length, ev.type, ev.touches)])

CoreClearEndedInputs == CoreStep(NoEvent.ev, "clear", State_clearEndedInputs(inputs))

CoreResetInputs == CoreStep(NoEvent.ev, "reset", State_resetInputs)

CoreNext == CoreUpdateAllInputs \/ CoreClearEndedInputs \/ CoreResetInputs

SpecCore == CoreInit /\ [][CoreNext]_vars

-----------------------------------------------------------------------------
(* C25: State.hasOnlyEndedInputs() is true exactly when every tracked input   *)
(* is in the end phase, in every state updateInput, clearEndedInputs and      *)
(* resetInputs lead to, those where the tracked identifiers leave gaps and    *)
(* those where clearEndedInputs has put undefined for ended inputs included;  *)
(* after clearEndedInputs no tracked input is in the end phase and every      *)
(* other input is still tracked under its identifier.                         *)
C25_Step ==
    /\ State_hasOnlyEndedInputs(inputs')
       <=> \A id \in DOMAIN inputs'.tracked :
               getCurrentEventType(inputs'.tracked[id]) = "end"
    /\ last'.step = "clear"
       => /\ \A id \in DOMAIN inputs'.tracked :
                 getCurrentEventType(inputs'.tracked[id]) # "end"
          /\ \A id \in DOMAIN inputs.tracked :
                 getCurrentEventType(inputs.tracked[id]) # "end"
                 => /\ id \in DOMAIN inputs'.tracked
                    /\ inputs'.tracked[id] = inputs.tracked[id]

C25_HasOnlyEndedInputs == [][C25_Step]_vars

-----------------------------------------------------------------------------
(* C26: the payload forwarded for a gesture kind on an event does not depend  *)
(* on how many other bindings of that kind are addressable: the same events   *)
(* forward the same payloads with and without an extra ancestor binding of    *)
(* the kind.  Stated of two runs over the same events, one of a region with   *)
(* the bindings of the inner and the outer element, one of a region with the  *)
(* inner element's binding only, for as long as the two hold the same inputs. *)
InnerOnly ==
    [Configs[cfg] EXCEPT !.bindings =
        SelectSeq(Configs[cfg].bindings, LAMBDA b : b.element = "inner")]

Payloads(forwarded) == [k \in 1..Len(forwarded) |-> <<forwarded[k].id, forwarded[k].data>>]

C26_Step ==
    (/\ nEvents = 1
     /\ inputs = arbiter(InnerOnly, <<>>, last.ev, now).inputs)
    => Payloads(last'.forwarded)
           = Payloads(arbiter(InnerOnly, inputs, last'.ev, now').forwarded)

C26_SamePayloads == [][C26_Step]_vars

-----------------------------------------------------------------------------
(* C27: when more than two inputs are tracked and exactly two of them are     *)
(* active, Pinch computes its distance and center, and a two-input Rotate its *)
(* pivot, from the two active inputs, never from one in the end phase.        *)
C27_Step ==
    (/\ last'.step = "interpreted" /\ last'.ev.type = "move" /\ ~last'.threw
     /\ Len(Updated) > 2
     /\ Cardinality(ActiveInputs(Updated)) = 2
     /\ last'.candidates # <<>>)
    => /\ Bound.cls = "Pinch"
          => /\ last'.candidates[1].data.distance = ActiveDistance(Updated)
             /\ last'.candidates[1].data.center = ActiveCenter(Updated)
       /\ Bound.cls = "Rotate"
          => \E i \in ActiveInputs(Updated) :
                 last'.candidates[1].data.angle =
                     AngleAbout(ActiveCenter(Updated).x, ActiveCenter(Updated).y,
                                Updated[i])

C27_ActiveInputsMeasured == [][C27_Step]_vars

-----------------------------------------------------------------------------
(* C28: a Move or an End for a tracked input whose last recorded position is  *)
(* outside the bounds of the region's element does not update the input: it   *)
(* purges every input of the region, no recognizer emits for the event, and   *)
(* every later Move or End is ignored until a new Start.                      *)
OutsideRegion(p) ==
    LET r == getBoundingClientRect("region")
    IN \/ p.x < r.left \/ p.x > r.left + r.width
       \/ p.y < r.top \/ p.y > r.top + r.height

C28_Step ==
    (last'.ev.type \in {"move", "end"})
    => /\ (\E i \in 1..Len(inputs), k \in 1..Len(last'.ev.touches) :
               /\ inputs[i].identifier = last'.ev.touches[k].identifier
               /\ OutsideRegion(inputs[i].current))
          => /\ inputs' = <<>>
             /\ last'.candidates = <<>>
             /\ last'.forwarded = <<>>
             /\ ~last'.threw
       /\ inputs = <<>>
          => /\ inputs' = <<>>
             /\ last'.step = "ignored"
             /\ last'.forwarded = <<>>

C28_OutsideRegionPurges == [][C28_Step]_vars

(* The only contact ever moved or lifted is contact 0, tracked whenever any   *)
(* is and started inside the bound element: a move with a button down that    *)
(* finds no binding and leaves no input came after the contact left the       *)
(* region.                                                                    *)
C28_Witness ==
    /\ cfg = "leave"
    /\ last.ev.type = "move"
    /\ last.step = "unbound"
    /\ inputs = <<>>
====
